---- MODULE Spec2Model ----
(***************************************************************************)
(* Multi-factor synthesis of jaqs/research/signaldigger/multi_factor.py:   *)
(* the four IC-based weight schemes (ic_weight, ir_weight, max_IR_weight,  *)
(* max_IC_weight), the IC estimator, the orthogonalizer and the combiner.  *)
(*                                                                         *)
(* Numbers.  A float is <<kind, num, den>>: an exact rational ("fin"), an  *)
(* infinity ("inf", num = +1 or -1) or NaN ("nan").  Division follows IEEE *)
(* (x/0 = +-inf, 0/0 = NaN, x/inf = 0, inf/inf = NaN); rounding of finite  *)
(* results is not modelled, except for sqrt, which is rounded up to a      *)
(* multiple of 1/SqrtResolution.  Signed zeros are not distinguished.      *)
(***************************************************************************)
EXTENDS Integers, Sequences, FiniteSets, TLC

\* -------------------------------------------------------------- bounds
MaxDates == 3
MaxHoldingPeriod == 2
MaxRollbackPeriod == 3
SqrtResolution == 4

\* --------------------------------------------------------------- floats
Abs(i) == IF i < 0 THEN -i ELSE i

RECURSIVE GCD(_, _)
GCD(a, b) == IF b = 0 THEN a ELSE GCD(b, a % b)

NaN == <<"nan", 0, 1>>
PInf == <<"inf", 1, 1>>

Q(n, d) ==
    LET g == GCD(Abs(n), Abs(d))
        s == IF d < 0 THEN -1 ELSE 1
    IN  <<"fin", (s * n) \div g, (s * d) \div g>>

Z(i) == <<"fin", i, 1>>

IsNaN(x) == x[1] = "nan"
IsInf(x) == x[1] = "inf"
IsFin(x) == x[1] = "fin"
IsZero(x) == x[1] = "fin" /\ x[2] = 0
Sign(x) == IF x[2] > 0 THEN 1 ELSE IF x[2] < 0 THEN -1 ELSE 0
Inf(s) == IF s > 0 THEN PInf ELSE <<"inf", -1, 1>>

\* pandas notnull: everything but NaN, infinities included
NotNull(x) == ~IsNaN(x)

FAdd(x, y) ==
    IF IsNaN(x) \/ IsNaN(y) THEN NaN
    ELSE IF IsInf(x) /\ IsInf(y) THEN (IF x = y THEN x ELSE NaN)
    ELSE IF IsInf(x) THEN x
    ELSE IF IsInf(y) THEN y
    ELSE LET g == GCD(x[3], y[3])
         IN  Q(x[2] * (y[3] \div g) + y[2] * (x[3] \div g), (x[3] \div g) * y[3])

FNeg(x) == IF IsNaN(x) THEN NaN ELSE <<x[1], -x[2], x[3]>>

FSub(x, y) == FAdd(x, FNeg(y))

FMul(x, y) ==
    IF IsNaN(x) \/ IsNaN(y) THEN NaN
    ELSE IF IsInf(x) \/ IsInf(y)
         THEN (IF Sign(x) * Sign(y) = 0 THEN NaN ELSE Inf(Sign(x) * Sign(y)))
    ELSE LET g == GCD(Abs(x[2]), y[3])
             h == GCD(Abs(y[2]), x[3])
         IN  Q((x[2] \div g) * (y[2] \div h), (x[3] \div h) * (y[3] \div g))

FDiv(x, y) ==
    IF IsNaN(x) \/ IsNaN(y) THEN NaN
    ELSE IF IsInf(x) THEN (IF IsInf(y) THEN NaN
                           ELSE Inf(Sign(x) * (IF Sign(y) < 0 THEN -1 ELSE 1)))
    ELSE IF IsInf(y) THEN Z(0)
    ELSE IF IsZero(y) THEN (IF IsZero(x) THEN NaN ELSE Inf(Sign(x)))
    ELSE LET g == GCD(Abs(x[2]), Abs(y[2]))
             h == GCD(y[3], x[3])
         IN  Q((x[2] \div g) * (y[3] \div h), (x[3] \div h) * (y[2] \div g))

FLess(x, y) == IsFin(x) /\ IsFin(y) /\ x[2] * y[3] < y[2] * x[3]

\* smallest k in lo..hi with k*k >= n, by bisection
RECURSIVE CeilRootIn(_, _, _)
CeilRootIn(n, lo, hi) ==
    IF lo >= hi THEN lo
    ELSE LET mid == (lo + hi) \div 2
         IN  IF mid * mid >= n THEN CeilRootIn(n, lo, mid) ELSE CeilRootIn(n, mid + 1, hi)

\* smallest k >= lo with k*k >= n (n below 2^30)
CeilRoot(n, lo) == CeilRootIn(n, lo, IF n < 32768 THEN n ELSE 32768)

\* sqrt of a float: NaN for NaN and negatives, rounded up to 1/SqrtResolution
\* unless the rational is a perfect square
FSqrt(x) ==
    IF IsNaN(x) THEN NaN
    ELSE IF IsInf(x) THEN (IF x = PInf THEN PInf ELSE NaN)
    ELSE IF x[2] < 0 THEN NaN
    ELSE LET rn == CeilRoot(x[2], 0)
             rd == CeilRoot(x[3], 0)
         IN  IF rn * rn = x[2] /\ rd * rd = x[3] THEN Q(rn, rd)
             ELSE Q(CeilRoot(x[2] * x[3] * SqrtResolution * SqrtResolution, 0),
                    x[3] * SqrtResolution)

\* ------------------------------------------------------------ sequences
RECURSIVE FSum(_)
\* numpy add-reduce of a vector (NaN and inf propagate)
FSum(v) == IF v = <<>> THEN Z(0) ELSE FAdd(FSum(SubSeq(v, 1, Len(v) - 1)), v[Len(v)])

Range(s) == {s[i] : i \in DOMAIN s}

\* The same sequence / function, with its values computed once.
Vec(s) == s \o <<>>
Fn(f) == f @@ <<>>

RECURSIVE SetToSeq(_)
SetToSeq(S) == IF S = {} THEN <<>>
               ELSE LET x == CHOOSE y \in S : \A z \in S : y <= z
                    IN  <<x>> \o SetToSeq(S \ {x})

\* ------------------------------------------------------ IC matrix, pandas
\* The factor columns of an IC matrix / weight matrix, in column order.
FactorNames == <<"A", "B">>
K == Len(FactorNames)
Cols == 1..K

NaNRow == Vec([f \in Cols |-> NaN])

\* pd.DataFrame(index=ic_df.index, columns=ic_df.columns): all-NaN frame
EmptyFrame(ic) ==
    [index |-> ic.index, columns |-> ic.columns,
     data |-> Vec([i \in 1..Len(ic.index) |-> NaNRow])]

\* mutant: the date filter forgotten (every row, later dates included)
RowsUpTo_NoFilter(ic, dt) == ic.data

\* ic_df[ic_df.index <= dt]: the rows whose date is at most dt, in order
RowsUpTo(ic, dt) ==
    LET keep == {i \in 1..Len(ic.index) : ic.index[i] <= dt}
        pos == SetToSeq(keep)
    IN  Vec([j \in 1..Len(pos) |-> ic.data[pos[j]]])

\* mutant: head(n) for tail(n)
tail_AsHead(rows, n) ==
    IF n >= Len(rows) THEN rows ELSE SubSeq(rows, 1, n)

\* DataFrame.tail(n): the last n rows; tail(0) is empty
tail(rows, n) ==
    IF n >= Len(rows) THEN rows ELSE SubSeq(rows, Len(rows) - n + 1, Len(rows))

Column(rows, f) == Vec([t \in 1..Len(rows) |-> rows[t][f]])

DropNaN(col) == SelectSeq(col, NotNull)

\* Series.mean(), skipna: NaN when no value is left
mean(col) ==
    LET v == DropNaN(col)
    IN  IF v = <<>> THEN NaN ELSE FDiv(FSum(v), Z(Len(v)))

\* the sample standard deviation of the values v around their mean m
std_around(v, m) ==
    IF Len(v) < 2 THEN NaN
    ELSE FSqrt(FDiv(FSum(Vec([t \in 1..Len(v) |-> FMul(FSub(v[t], m), FSub(v[t], m))])),
                    Z(Len(v) - 1)))

\* Series.std(), skipna, ddof = 1: NaN when fewer than two values are left
std(col) == std_around(DropNaN(col), mean(col))

\* weight / np.sum(weight)
NormalizeBy(weight, total) == Vec([f \in DOMAIN weight |-> FDiv(weight[f], total)])

Normalize(weight) == NormalizeBy(Vec(weight), FSum(Vec(weight)))

\* DataFrame.shift(periods), periods >= 0: row i takes row i - periods
shift(df, periods) ==
    [index |-> df.index,
     columns |-> df.columns,
     data |-> Vec([i \in 1..Len(df.index) |->
                 IF i - periods >= 1 THEN df.data[i - periods] ELSE NaNRow])]

\* --------------------------------------------------------- ic_weight
\* one pass of the loop body for date dt (row stays NaN on `continue`)
ic_weight_row(ic, dt, n) ==
    LET ic_dt == tail(RowsUpTo(ic, dt), n)
        weight == Vec([f \in Cols |-> mean(Column(ic_dt, f))])
    IN  IF Len(ic_dt) < n THEN NaNRow ELSE Normalize(weight)

ic_weight_df(ic, hp, n) ==
    shift([index |-> ic.index,
           columns |-> ic.columns,
           data |-> Vec([i \in 1..Len(ic.index) |->
                       ic_weight_row(ic, ic.index[i], n)])],
          hp)

\* --------------------------------------------------------- ir_weight
ir_weight_row(ic, dt, n) ==
    LET ic_dt == tail(RowsUpTo(ic, dt), n)
        weight == Vec([f \in Cols |-> FDiv(mean(Column(ic_dt, f)), std(Column(ic_dt, f)))])
    IN  IF Len(ic_dt) < n THEN NaNRow ELSE Normalize(weight)

ir_weight_df(ic, hp, n) ==
    shift([index |-> ic.index,
           columns |-> ic.columns,
           data |-> Vec([i \in 1..Len(ic.index) |->
                       ir_weight_row(ic, ic.index[i], n)])],
          hp)

\* ------------------------------------------------- covariance estimators
CenterBy(rows, m) ==
    Vec([t \in 1..Len(rows) |-> Vec([f \in Cols |-> FSub(rows[t][f], m[f])])])

\* X - X.mean(axis=0), the plain mean (NaN propagates, 0/0 for no rows)
Centered(rows) ==
    CenterBy(rows, Vec([f \in Cols |-> FDiv(FSum(Column(rows, f)), Z(Len(rows)))]))

\* sum over the observations of x[a] * x[b]
CrossSum(x, a, b) == FSum(Vec([t \in 1..Len(x) |-> FMul(x[t][a], x[t][b])]))

\* np.cov(X.T): sample covariance, ddof = 1; the factor 1/(N-1) is 1/0 = inf
\* for N <= 1, so that every entry is 0 * inf = NaN (or NaN already)
np_cov_centered(x, fact) ==
    Vec([a \in Cols |-> Vec([b \in Cols |-> FMul(CrossSum(x, a, b), FDiv(Z(1), Z(fact)))])])

np_cov(rows) ==
    np_cov_centered(Centered(rows), IF Len(rows) - 1 <= 0 THEN 0 ELSE Len(rows) - 1)

\* LedoitWolf().fit(X) refuses an empty or non-finite input (check_array)
lw_fit_raises(rows) ==
    Len(rows) = 0 \/ \E t \in 1..Len(rows) : \E f \in Cols : ~IsFin(rows[t][f])

FMin(x, y) == IF FLess(y, x) THEN y ELSE x

CrossMatrix(x) == Vec([a \in Cols |-> Vec([b \in Cols |-> CrossSum(x, a, b)])])

Squares(x) == Vec([t \in 1..Len(x) |-> Vec([f \in Cols |-> FMul(x[t][f], x[t][f])])])

SumAll(m) == FSum(Vec([a \in Cols |-> FSum(Vec([b \in Cols |-> m[a][b]]))]))

Trace(m) == FSum(Vec([f \in Cols |-> m[f][f]]))

\* sklearn ledoit_wolf_shrinkage: beta = min(beta, delta); 0 when beta = 0
lw_clip(beta, delta) ==
    IF IsZero(FMin(beta, delta)) THEN Z(0) ELSE FDiv(FMin(beta, delta), delta)

\* emp: the ML covariance of the centred data; beta_: the sum over all pairs
\* of features of sum_t x[t][a]^2 * x[t][b]^2; N samples, K features
lw_shrinkage(emp, beta_, N) ==
    lw_clip(FDiv(FSub(FDiv(beta_, N), SumAll(Squares(emp))), FMul(Z(K), N)),
            FDiv(FAdd(FSub(SumAll(Squares(emp)),
                           FMul(Z(2), FMul(FDiv(Trace(emp), Z(K)), Trace(emp)))),
                      FMul(Z(K), FMul(FDiv(Trace(emp), Z(K)), FDiv(Trace(emp), Z(K))))),
                 Z(K)))

\* (1 - s) * emp + s * mu * I
lw_shrunk(emp, s, mu) ==
    Vec([a \in Cols |-> Vec([b \in Cols |->
        FAdd(FMul(FSub(Z(1), s), emp[a][b]), IF a = b THEN FMul(s, mu) ELSE Z(0))])])

lw_from(emp, beta_, N) ==
    lw_shrunk(emp, lw_shrinkage(emp, beta_, N), FDiv(Trace(emp), Z(K)))

Scaled(m, c) == Vec([a \in Cols |-> Vec([b \in Cols |-> FMul(m[a][b], c)])])

lw_centered(x) ==
    lw_from(Scaled(CrossMatrix(x), FDiv(Z(1), Z(Len(x)))),
            SumAll(CrossMatrix(Squares(x))), Z(Len(x)))

\* LedoitWolf().fit(X).covariance_: (1 - s) * S + s * mu * I, S the ML
\* covariance of the centred data, s the Ledoit-Wolf shrinkage
lw_covariance(rows) == lw_centered(Centered(rows))

\* lines 185-191 / 232-238: the shrinkage estimate, the sample covariance
\* when it fails or when covariance_type is not "shrink"
Covariance(rows, ctype) ==
    IF ctype = "shrink" /\ ~lw_fit_raises(rows) THEN lw_covariance(rows)
    ELSE np_cov(rows)

HasNaN(m) == \E a \in Cols : \E b \in Cols : IsNaN(m[a][b])

NaNMatrix == Vec([a \in Cols |-> NaNRow])

Det2(m) == FSub(FMul(m[1][1], m[2][2]), FMul(m[1][2], m[2][1]))

\* np.linalg.inv of a 2 x 2 matrix: LinAlgError when the matrix is singular.
\* A matrix with NaN entries comes back all NaN, except that LAPACK's pivot
\* search may report a zero first pivot as singular: both outcomes are kept
\* (lapack = "raise" | "nan").
inv_by(m, det, lapack) ==
    IF HasNaN(m)
    THEN IF IsZero(m[1][1]) /\ lapack = "raise"
         THEN [err |-> TRUE, m |-> NaNMatrix]
         ELSE [err |-> FALSE, m |-> NaNMatrix]
    ELSE IF IsZero(det) THEN [err |-> TRUE, m |-> NaNMatrix]
    ELSE [err |-> FALSE,
          m |-> <<<<FDiv(m[2][2], det), FDiv(FNeg(m[1][2]), det)>>,
                  <<FDiv(FNeg(m[2][1]), det), FDiv(m[1][1], det)>>>>]

inv(m, lapack) == inv_by(m, Det2(m), lapack)

\* inv * v as a column vector
MatVec(m, v) == Vec([a \in Cols |-> FSum(Vec([b \in Cols |-> FMul(m[a][b], v[b])]))])

\* ------------------------------------------------------- max_IR_weight
\* the loop body for date dt: skip (NaN row), raise, or the assigned row
\* lines 192-195 / 239-242: the row inv * v normalized, unless inv raised
weight_from(inverse, v) ==
    IF inverse.err THEN [err |-> "LinAlgError", row |-> NaNRow]
    ELSE [err |-> "none", row |-> Normalize(MatVec(inverse.m, v))]

max_IR_weight_window(ic_dt, n, ctype, lapack) ==
    IF Len(ic_dt) < n THEN [err |-> "none", row |-> NaNRow]
    ELSE weight_from(inv(Covariance(ic_dt, ctype), lapack),
                     Vec([f \in Cols |-> mean(Column(ic_dt, f))]))

max_IR_weight_row(ic, dt, n, ctype, lapack) ==
    max_IR_weight_window(tail(RowsUpTo(ic, dt), n), n, ctype, lapack)

\* the loop ends at the first date that raises; otherwise the rows, shifted
weight_df_from(ic, rows, hp) ==
    IF \E i \in DOMAIN rows : rows[i].err # "none"
    THEN [raised |-> rows[CHOOSE i \in DOMAIN rows :
                            /\ rows[i].err # "none"
                            /\ \A j \in 1..(i - 1) : rows[j].err = "none"].err,
          df |-> EmptyFrame(ic)]
    ELSE [raised |-> "none",
          df |-> shift([index |-> ic.index,
                        columns |-> ic.columns,
                        data |-> Vec([i \in DOMAIN rows |-> rows[i].row])], hp)]

max_IR_weight_df(ic, hp, n, ctype, lapack) ==
    weight_df_from(ic,
                   Vec([i \in 1..Len(ic.index) |->
                          max_IR_weight_row(ic, ic.index[i], n, ctype, lapack)]),
                   hp)

\* ------------------------------------------------------ factor panels
\* A panel: dates (ascending), asset columns, and a value per date and asset.
\* A factor mapping (dict): the (name, panel) items in key order.
Assets == {"x", "y", "z"}

Keys(items) == [i \in 1..Len(items) |-> items[i].name]

HasKey(items, name) == \E i \in 1..Len(items) : items[i].name = name

Lookup(items, name) == items[CHOOSE i \in 1..Len(items) : items[i].name = name].panel

InIndex(panel, dt) == \E i \in 1..Len(panel.index) : panel.index[i] = dt

RECURSIVE AsSeq(_)
AsSeq(S) == IF S = {} THEN <<>>
            ELSE LET x == CHOOSE y \in S : TRUE IN <<x>> \o AsSeq(S \ {x})

\* ------------------------------------------------------- max_IC_weight
\* pd.concat([factors_dict[name].loc[dt] ...], axis=1).dropna(): one row per
\* asset that has a value in every factor on dt
CrossSection(items, names, dt) ==
    LET all == UNION {Lookup(items, names[f]).columns : f \in Cols}
        val(a, f) == LET p == Lookup(items, names[f])
                     IN  IF a \in p.columns THEN p.data[dt][a] ELSE NaN
        full == {a \in all : \A f \in Cols : NotNull(val(a, f))}
        order == AsSeq(full)
    IN  Vec([t \in 1..Len(order) |-> Vec([f \in Cols |-> val(order[t], f)])])

\* .loc[dt] on a panel without that date (or a missing key) is a KeyError
LocFails(items, names, dt) ==
    \E f \in Cols : \/ ~HasKey(items, names[f])
                    \/ ~InIndex(Lookup(items, names[f]), dt)

max_IC_weight_section(f_dt, v, ctype, lapack) ==
    IF Len(f_dt) = 0 THEN [err |-> "none", row |-> NaNRow]
    ELSE weight_from(inv(Covariance(f_dt, ctype), lapack), v)

max_IC_weight_row(ic, items, i, ctype, lapack) ==
    IF LocFails(items, ic.columns, ic.index[i]) THEN [err |-> "KeyError", row |-> NaNRow]
    ELSE max_IC_weight_section(CrossSection(items, ic.columns, ic.index[i]),
                               ic.data[i], ctype, lapack)

max_IC_weight_df(ic, items, hp, ctype, lapack) ==
    weight_df_from(ic,
                   Vec([i \in 1..Len(ic.index) |->
                          max_IC_weight_row(ic, items, i, ctype, lapack)]),
                   hp)

\* =============================================================== state
VARIABLES
    fn,               \* the public function being called
    pc,               \* "ready" before the call, "done" after it returned or raised
    factors_dict,     \* the caller's factor mapping: [none, items]
    factors_in,       \* the mapping as it was when the call was made
    ic_df,            \* the IC matrix argument
    holding_period,   \* holding_period (props['period'] in combine_factors)
    rollback_period,
    covariance_type,
    standardize_type,
    winsorization,
    index_member,
    weighted_method,
    props,            \* price, high/low and ret_type as the caller gives them
    collab,           \* the collaborator's answers: return columns, IC series per factor
    result,           \* the returned object
    raised,           \* "none" or the exception that ended the call
    calls             \* the collaborators called, in order

vars == <<fn, pc, factors_dict, factors_in, ic_df, holding_period, rollback_period,
          covariance_type, standardize_type, winsorization, index_member,
          weighted_method, props, collab, result, raised, calls>>

NoFrame == [index |-> <<>>, columns |-> <<>>, data |-> <<>>]
NoDict == [none |-> TRUE, items |-> <<>>]
NoProps == [price |-> "None", high_low |-> "None", ret_type |-> "return"]
NoCollab == [columns |-> {"return"}, ic |-> <<>>]

\* ----------------------------------------------- inputs of the weight schemes
\* IC rows (one value per factor) the IC matrices are built from
ICRows == {<<Z(1), Z(0)>>, <<Z(0), Z(1)>>, <<Z(0), Z(0)>>, <<Z(1), Z(-1)>>, <<NaN, Z(1)>>}

\* IC matrices over the dates 1..T
ICFrames == UNION {{[index |-> Vec([i \in 1..T |-> i]), columns |-> FactorNames, data |-> d] :
                       d \in [1..T -> ICRows]}
                   : T \in 0..MaxDates}

\* cross-sections of the two factors over the assets: well conditioned; two
\* usable assets; no usable asset; one usable asset
XSections ==
    << [a \in Assets |-> IF a = "x" THEN <<Z(1), Z(0)>>
                         ELSE IF a = "y" THEN <<Z(0), Z(1)>> ELSE <<Z(0), Z(0)>>],
       [a \in Assets |-> IF a = "x" THEN <<Z(1), Z(0)>>
                         ELSE IF a = "y" THEN <<Z(0), Z(1)>> ELSE <<NaN, Z(0)>>],
       [a \in Assets |-> IF a = "x" THEN <<Z(1), NaN>>
                         ELSE IF a = "y" THEN <<NaN, Z(1)>> ELSE <<NaN, NaN>>],
       [a \in Assets |-> IF a = "x" THEN <<Z(1), Z(2)>>
                         ELSE IF a = "y" THEN <<NaN, Z(1)>> ELSE <<Z(0), NaN>>] >>

\* the factor mapping whose cross-section on date d is XSections[c[d]]
PanelsOf(c) ==
    [none |-> FALSE,
     items |-> Vec([f \in Cols |->
        [name |-> FactorNames[f],
         panel |-> [index |-> Vec([i \in DOMAIN c |-> i]),
                    columns |-> Assets,
                    data |-> Fn([d \in DOMAIN c |->
                                   Fn([a \in Assets |-> XSections[c[d]][a][f]])])]]])]

\* max_IC_weight walks a cross-section per date: one date fewer keeps it small
MaxPanelDates == MaxDates - 1

ICRowsMaxIC == {<<Z(1), Z(0)>>, <<NaN, Z(1)>>}

WeightDefaults ==
    /\ pc = "ready"
    /\ factors_in = factors_dict
    /\ standardize_type = "rank"
    /\ winsorization = FALSE
    /\ index_member = [given |-> FALSE, members |-> {}]
    /\ weighted_method = "equal_weight"
    /\ props = NoProps
    /\ collab = NoCollab
    /\ result = NoFrame
    /\ raised = "none"
    /\ calls = <<>>

InitWeights ==
    /\ \/ /\ fn \in {"ic_weight", "ir_weight"}
          /\ ic_df \in ICFrames
          /\ rollback_period \in 0..MaxRollbackPeriod
          /\ covariance_type = "simple"
          /\ factors_dict = NoDict
       \/ /\ fn = "max_IR_weight"
          /\ ic_df \in ICFrames
          /\ rollback_period \in 0..MaxRollbackPeriod
          /\ covariance_type \in {"shrink", "simple"}
          /\ factors_dict = NoDict
       \/ /\ fn = "max_IC_weight"
          /\ \E T \in 0..MaxPanelDates :
               /\ ic_df \in {[index |-> Vec([i \in 1..T |-> i]), columns |-> FactorNames,
                                 data |-> d] :
                                d \in [1..T -> ICRowsMaxIC]}
               /\ factors_dict \in {PanelsOf(c) : c \in [1..T -> 1..Len(XSections)]}
          /\ rollback_period = 0
          /\ covariance_type \in {"shrink", "simple"}
    /\ holding_period \in 0..MaxHoldingPeriod
    /\ WeightDefaults

\* ------------------------------------------------- the weight schemes
Returns(df) ==
    /\ result' = df
    /\ raised' = "none"
    /\ pc' = "done"

Raises(e) ==
    /\ result' = NoFrame
    /\ raised' = e
    /\ pc' = "done"

\* the call ends with the matrix returned or with the exception
Outcome(r) == IF r.raised = "none" THEN Returns(r.df) ELSE Raises(r.raised)

WeightFrame ==
    UNCHANGED <<fn, factors_dict, factors_in, ic_df, holding_period, rollback_period,
                covariance_type, standardize_type, winsorization, index_member,
                weighted_method, props, collab, calls>>

ic_weight ==
    /\ pc = "ready" /\ fn = "ic_weight"
    /\ Returns(ic_weight_df(ic_df, holding_period, rollback_period))
    /\ WeightFrame

ir_weight ==
    /\ pc = "ready" /\ fn = "ir_weight"
    /\ Returns(ir_weight_df(ic_df, holding_period, rollback_period))
    /\ WeightFrame

max_IR_weight ==
    /\ pc = "ready" /\ fn = "max_IR_weight"
    /\ \E lapack \in {"nan", "raise"} :
         Outcome(max_IR_weight_df(ic_df, holding_period, rollback_period,
                                  covariance_type, lapack))
    /\ WeightFrame

max_IC_weight ==
    /\ pc = "ready" /\ fn = "max_IC_weight"
    /\ \E lapack \in {"nan", "raise"} :
         Outcome(max_IC_weight_df(ic_df, factors_dict.items, holding_period,
                                  covariance_type, lapack))
    /\ WeightFrame

NextWeights == ic_weight \/ ir_weight \/ max_IR_weight \/ max_IC_weight

SpecWeights == InitWeights /\ [][NextWeights]_vars

\* ============================================== claims on the weight schemes
WeightFns == {"ic_weight", "ir_weight", "max_IR_weight", "max_IC_weight"}

Returned == pc = "done" /\ raised = "none"

Prefix(ic, k) ==
    [index |-> SubSeq(ic.index, 1, k), columns |-> ic.columns, data |-> SubSeq(ic.data, 1, k)]

RowDefined(row) == \A f \in DOMAIN row : NotNull(row[f])
RowUndefined(row) == \A f \in DOMAIN row : IsNaN(row[f])
RowFinite(row) == \A f \in DOMAIN row : IsFin(row[f])

\* the weight row of position k, computed from the IC rows 1..k alone
PreShiftRow(k) ==
    CASE fn = "ic_weight" ->
            ic_weight_row(Prefix(ic_df, k), ic_df.index[k], rollback_period)
      [] fn = "ir_weight" ->
            ir_weight_row(Prefix(ic_df, k), ic_df.index[k], rollback_period)
      [] fn = "max_IR_weight" ->
            max_IR_weight_row(Prefix(ic_df, k), ic_df.index[k], rollback_period,
                              covariance_type, "nan").row
      [] fn = "max_IC_weight" ->
            max_IC_weight_row(Prefix(ic_df, k), factors_dict.items, k,
                              covariance_type, "nan").row

\* C1: the returned weight matrix has the IC matrix's index; its row i > h is
\* the weight row computed for position i - h, which is a function of the IC
\* rows 1..i-h alone (no look-ahead); its rows 1..h are undefined.
C1_ShiftNoLookAhead ==
    (Returned /\ fn \in WeightFns) =>
        /\ result.index = ic_df.index
        /\ Len(result.data) = Len(ic_df.data)
        /\ \A i \in 1..Len(ic_df.index) :
              result.data[i] = IF i > holding_period
                               THEN PreShiftRow(i - holding_period)
                               ELSE NaNRow

C1_Witness ==
    /\ Returned /\ fn = "max_IC_weight"
    /\ holding_period = 1 /\ Len(ic_df.index) = 2
    /\ RowUndefined(result.data[1])
    /\ RowFinite(result.data[2])

\* C2: every returned row whose weights are all defined (not NaN) sums to
\* exactly 1 over the factors.
C2_DefinedRowsSumToOne ==
    (Returned /\ fn \in WeightFns) =>
        \A i \in 1..Len(result.data) :
            RowDefined(result.data[i]) => FSum(result.data[i]) = Z(1)

NoMissing(ic) == \A i \in 1..Len(ic.data) : RowDefined(ic.data[i])

\* the scheme's row over an explicit window of IC rows
WindowRow(rows) ==
    IF fn = "ic_weight"
    THEN Normalize(Vec([f \in Cols |-> mean(Column(rows, f))]))
    ELSE Normalize(Vec([f \in Cols |-> FDiv(mean(Column(rows, f)), std(Column(rows, f)))]))

C3_Case ==
    /\ Returned /\ fn \in {"ic_weight", "ir_weight"}
    /\ holding_period = 0 /\ NoMissing(ic_df)

\* C3 as stated: with rollback_period 0 or 1 every date gets a defined row;
\* with rollback_period N the first N-1 rows are undefined and every later
\* row is computed from exactly the N most recent IC rows.
C3_RollbackWindow ==
    C3_Case =>
        /\ rollback_period <= 1 =>
              \A i \in 1..Len(result.data) : RowDefined(result.data[i])
        /\ rollback_period >= 1 =>
              \A i \in 1..Len(result.data) :
                 IF i < rollback_period THEN RowUndefined(result.data[i])
                 ELSE result.data[i] =
                        WindowRow(SubSeq(ic_df.data, i - rollback_period + 1, i))

\* C3, amended: with rollback_period N >= 1 the first N-1 rows are undefined
\* and every later row is the scheme's formula over exactly the N most recent
\* IC rows; for ic_weight with N = 1 that is the IC row divided by its sum
\* (defined unless 0/0); for ir_weight with N = 1 (std of one observation)
\* and for both schemes with N = 0 (empty window) every row is undefined.
C3_RollbackWindowAmended ==
    C3_Case =>
        /\ rollback_period = 0 =>
              \A i \in 1..Len(result.data) : RowUndefined(result.data[i])
        /\ (rollback_period = 1 /\ fn = "ir_weight") =>
              \A i \in 1..Len(result.data) : RowUndefined(result.data[i])
        /\ (rollback_period = 1 /\ fn = "ic_weight") =>
              \A i \in 1..Len(result.data) : \A f \in Cols :
                 /\ result.data[i][f] = FDiv(ic_df.data[i][f], FSum(ic_df.data[i]))
                 /\ IsNaN(result.data[i][f]) <=>
                       (IsZero(ic_df.data[i][f]) /\ IsZero(FSum(ic_df.data[i])))
        /\ rollback_period >= 1 =>
              \A i \in 1..Len(result.data) :
                 IF i < rollback_period THEN RowUndefined(result.data[i])
                 ELSE result.data[i] =
                        WindowRow(SubSeq(ic_df.data, i - rollback_period + 1, i))

C3_Witness ==
    /\ C3_Case /\ fn = "ir_weight"
    /\ rollback_period = 2 /\ Len(ic_df.index) = 3
    /\ RowUndefined(result.data[1])
    /\ RowFinite(result.data[2]) /\ RowFinite(result.data[3])
    /\ result.data[2] # result.data[3]

\* the dates whose covariance matrix is computed and is singular
SingularCov(rows) ==
    /\ ~HasNaN(Covariance(rows, covariance_type))
    /\ IsZero(Det2(Covariance(rows, covariance_type)))

SingularDates ==
    IF fn = "max_IR_weight"
    THEN {i \in 1..Len(ic_df.index) :
            /\ i >= rollback_period
            /\ SingularCov(SubSeq(ic_df.data, i - rollback_period + 1, i))}
    ELSE {i \in 1..Len(ic_df.index) :
            /\ Len(CrossSection(factors_dict.items, ic_df.columns, ic_df.index[i])) > 0
            /\ SingularCov(CrossSection(factors_dict.items, ic_df.columns, ic_df.index[i]))}

C6_Case == pc = "done" /\ fn \in {"max_IR_weight", "max_IC_weight"} /\ SingularDates # {}

\* C6: a singular covariance does not abort the call; the date's row is
\* undefined and shows up holding_period rows later.
C6_SingularRowUndefined ==
    C6_Case =>
        /\ raised = "none"
        /\ \A i \in SingularDates :
              i + holding_period <= Len(result.data) =>
                 RowUndefined(result.data[i + holding_period])

\* C10: every returned row is defined for all factors or for none.
C10_NoPartialRow ==
    (Returned /\ fn \in WeightFns) =>
        \A i \in 1..Len(result.data) :
            RowDefined(result.data[i]) \/ RowUndefined(result.data[i])

\* ================================================================ panels
\* A factor panel is [index, columns, data]: the dates in order, the set of
\* assets, and data[date][asset].
Dates(panel) == Range(panel.index)

\* the panel with the cells of new, a value per date and asset
Cells(panel, new) ==
    [index |-> panel.index,
     columns |-> panel.columns,
     data |-> Fn([d \in Dates(panel) |-> Fn([a \in panel.columns |-> new[d][a]])])]

\* the values of one date over the assets, missing ones dropped
RowValues(panel, d, among) ==
    LET as == AsSeq({a \in panel.columns \cap among : NotNull(panel.data[d][a])})
    IN  Vec([i \in 1..Len(as) |-> panel.data[d][as[i]]])

\* ----------------------------------- the preprocessing collaborators
\* jutil.fillinf: non-finite values become missing
fillinf(panel) ==
    LET cell(d, a, v) == IF IsInf(v) THEN NaN ELSE v
    IN  Cells(panel, [d \in Dates(panel) |->
                        [a \in panel.columns |-> cell(d, a, panel.data[d][a])]])

\* index_member: None, or the assets that are members of the index
NoMask == [given |-> FALSE, members |-> {}]
Mask(members) == [given |-> TRUE, members |-> members]

\* the assets an index_member mask lets through
Members(panel, idx) == IF idx.given THEN panel.columns \cap idx.members ELSE panel.columns

\* process._mask_non_index_member: values of non-members become missing
mask_non_index_member(panel, idx) ==
    LET cell(d, a, v) == IF a \in Members(panel, idx) THEN v ELSE NaN
    IN  Cells(panel, [d \in Dates(panel) |->
                        [a \in panel.columns |-> cell(d, a, panel.data[d][a])]])

FMaxOf(v) == v[CHOOSE i \in DOMAIN v : \A j \in DOMAIN v : ~FLess(v[i], v[j])]
FMinOf(v) == v[CHOOSE i \in DOMAIN v : \A j \in DOMAIN v : ~FLess(v[j], v[i])]
Without(v, x) ==
    LET i == CHOOSE j \in DOMAIN v : v[j] = x
    IN  SubSeq(v, 1, i - 1) \o SubSeq(v, i + 1, Len(v))

\* process.winsorize: per date, the extreme values of the members are pulled
\* in to the next value (three values or more)
winsorize(panel, idx) ==
    LET among == Members(panel, idx)
        vals(d) == RowValues(panel, d, among)
        hi(d) == FMaxOf(Without(vals(d), FMaxOf(vals(d))))
        lo(d) == FMinOf(Without(vals(d), FMinOf(vals(d))))
        cell(d, a, v) ==
            IF IsNaN(v) \/ a \notin among \/ Len(vals(d)) < 3 THEN v
            ELSE IF FLess(hi(d), v) THEN hi(d)
            ELSE IF FLess(v, lo(d)) THEN lo(d)
            ELSE v
    IN  Cells(panel, [d \in Dates(panel) |->
                        [a \in panel.columns |-> cell(d, a, panel.data[d][a])]])

\* population standard deviation of the values v
PopStd(v) ==
    LET m == FDiv(FSum(v), Z(Len(v)))
        sq == Vec([i \in DOMAIN v |-> FMul(FSub(v[i], m), FSub(v[i], m))])
    IN  FSqrt(FDiv(FSum(sq), Z(Len(v))))

\* process.standardize: per date z-score over the members (mean 0, std 1)
standardize(panel, idx) ==
    LET among == Members(panel, idx)
        vals(d) == RowValues(panel, d, among)
        cell(d, a, v) ==
            IF IsNaN(v) \/ a \notin among THEN NaN
            ELSE FDiv(FSub(v, FDiv(FSum(vals(d)), Z(Len(vals(d))))), PopStd(vals(d)))
    IN  Cells(panel, [d \in Dates(panel) |->
                        [a \in panel.columns |-> cell(d, a, panel.data[d][a])]])

\* process.rank_standardize: per date, the average rank of the value among
\* the members, divided by the number of ranked values
rank_standardize(panel, idx) ==
    LET among == Members(panel, idx)
        vals(d) == RowValues(panel, d, among)
        below(d, v) == Cardinality({i \in DOMAIN vals(d) : FLess(vals(d)[i], v)})
        same(d, v) == Cardinality({i \in DOMAIN vals(d) : vals(d)[i] = v})
        cell(d, a, v) ==
            IF IsNaN(v) \/ a \notin among THEN NaN
            ELSE Q(2 * below(d, v) + same(d, v) + 1, 2 * Len(vals(d)))
    IN  Cells(panel, [d \in Dates(panel) |->
                        [a \in panel.columns |-> cell(d, a, panel.data[d][a])]])

\* ------------------------------------------------------- pandas on panels
\* x + y of two DataFrames: aligned on the union of both axes, missing where
\* either side has no value
PanelAdd(x, y) ==
    LET dates == Dates(x) \cup Dates(y)
        cols == x.columns \cup y.columns
        at(p, d, a) == IF d \in Dates(p) /\ a \in p.columns THEN p.data[d][a] ELSE NaN
    IN  [index |-> IF x.index = y.index THEN x.index ELSE SetToSeq(dates),
         columns |-> cols,
         data |-> Fn([d \in dates |-> Fn([a \in cols |-> FAdd(at(x, d, a), at(y, d, a))])])]

\* the position of date d in an index
Position(index, d) == CHOOSE i \in 1..Len(index) : index[i] = d

\* panel * w, w the column f of the weight matrix laid over the panel's
\* index and repeated for every asset
PanelTimesWeight(panel, weight, f) ==
    LET w(d) == IF d \in Range(weight.index)
                THEN weight.data[Position(weight.index, d)][f] ELSE NaN
        cell(d, a, v) == FMul(v, w(d))
    IN  Cells(panel, [d \in Dates(panel) |->
                        [a \in panel.columns |-> cell(d, a, panel.data[d][a])]])

\* ------------------------------------------------ the factor mapping
RECURSIVE Flatten(_)
Flatten(ss) == IF ss = <<>> THEN <<>> ELSE ss[1] \o Flatten(SubSeq(ss, 2, Len(ss)))

Call(op, key) == [op |-> op, key |-> key]

\* the exceptions of the three functions
NeedTwoFactors == "ValueError: at least 2 factors"
BadReturnType == "ValueError: ret_type"
BadStandardizeType == "ValueError: standardize_type"
BadWeightedMethod == "ValueError: weighted_method"
MissingReturnColumn == "ValueError: return column missing"
NothingToConcat == "ValueError: No objects to concatenate"
LengthMismatch == "ValueError: Length mismatch"
ValidationErrors ==
    {NeedTwoFactors, BadReturnType, BadStandardizeType, BadWeightedMethod, MissingReturnColumn}

\* mutant: the bound off by one (<= 2)
FewerThanTwo_OffByOne(dict) == dict.none \/ Len(dict.items) <= 2

\* `not factors_dict or len(list(factors_dict.keys())) < 2`
FewerThanTwo(dict) == dict.none \/ Len(dict.items) < 2

WithPanels(items, panels) ==
    Vec([i \in DOMAIN items |-> [name |-> items[i].name, panel |-> panels[i]]])

\* ------------------------------------------------------ get_factors_ic_df
ReturnTypes == {"return", "upside_ret", "downside_ret"}

\* sorted(pd.concat([... .index ...]).unique())
times(items) == SetToSeq(UNION {Dates(items[i].panel) : i \in DOMAIN items})

\* mutant: the incomplete rows of the joined IC table are not dropped
ic_table_row_NoDropna(items, series, d) ==
    Vec([i \in DOMAIN items |->
           IF d \in DOMAIN series[items[i].name] THEN series[items[i].name][d] ELSE NaN])

\* pd.concat(ic_table, axis=1).dropna().reindex(times): the IC row of a date
\* is kept when every factor has an IC value there, the other dates of times
\* are all-missing rows
ic_table_row(items, series, d) ==
    IF \A i \in DOMAIN items :
          d \in DOMAIN series[items[i].name] /\ NotNull(series[items[i].name][d])
    THEN Vec([i \in DOMAIN items |-> series[items[i].name][d]])
    ELSE Vec([i \in DOMAIN items |-> NaN])

get_factors_ic_df_of(items, ret_type_arg, answers) ==
    LET ret_type == IF ret_type_arg = "None" THEN "return" ELSE ret_type_arg
        index == times(items)
        first(i) == fillinf(items[i].panel)
        cleaned(i) == IF i = 1 THEN first(i) ELSE items[i].panel
    IN  IF ret_type \notin ReturnTypes
        THEN [raised |-> BadReturnType, items |-> items, calls |-> <<>>, ic |-> NoFrame]
        ELSE IF items = <<>>
        THEN [raised |-> NothingToConcat, items |-> items,
              calls |-> <<Call("SignalCreator", "")>>, ic |-> NoFrame]
        ELSE IF ret_type \notin answers.columns
        THEN [raised |-> MissingReturnColumn,
              items |-> WithPanels(items, [i \in DOMAIN items |-> cleaned(i)]),
              calls |-> <<Call("SignalCreator", ""), Call("fillinf", items[1].name),
                          Call("get_signal_data", items[1].name)>>,
              ic |-> NoFrame]
        ELSE [raised |-> "none",
              items |-> WithPanels(items, [i \in DOMAIN items |-> first(i)]),
              calls |-> <<Call("SignalCreator", "")>> \o
                        Flatten([i \in DOMAIN items |->
                                   <<Call("fillinf", items[i].name),
                                     Call("get_signal_data", items[i].name),
                                     Call("calc_signal_ic", items[i].name)>>]),
              ic |-> [index |-> index,
                      columns |-> Keys(items),
                      data |-> Vec([t \in DOMAIN index |->
                                      ic_table_row(items, answers.ic, index[t])])]]

\* ---------------------------------------------------------- orthogonalize
\* mutant: the sanitized panel is used, the mapping's entry is not winsorized
Sanitized_NoWinsorize(panel, wins, idx) == fillinf(panel)

\* lines 44-46: the panel the mapping holds after the first loop
Sanitized(panel, wins, idx) ==
    IF wins THEN winsorize(fillinf(panel), idx) ELSE fillinf(panel)

\* pd.concat(data, axis=1, join="inner"): the assets every panel has
Joined(items) ==
    {a \in UNION {items[i].panel.columns : i \in DOMAIN items} :
        \A i \in DOMAIN items : a \in items[i].panel.columns}

\* data.dropna(): the joined assets with a value in every factor on date d
Survivors(items, d) ==
    {a \in Joined(items) : \A i \in DOMAIN items : NotNull(items[i].panel.data[d][a])}

\* the rank of the survivors x factors matrix of date d (two factors)
Rank(items, d) ==
    LET u(a) == items[1].panel.data[d][a]
        v(a) == items[2].panel.data[d][a]
        S == Survivors(items, d)
    IN  IF \E a, b \in S : ~IsZero(FSub(FMul(u(a), v(b)), FMul(u(b), v(a)))) THEN 2
        ELSE IF \E a \in S : ~IsZero(u(a)) \/ ~IsZero(v(a)) THEN 1
        ELSE 0

\* what the loop body does on date d: factor.loc[date] fails on a panel
\* without the date; an empty join is skipped; linalg.orth returns one
\* column per unit of rank, and naming them after the factors fails unless
\* there are as many
DateOutcome(items, d) ==
    IF \E i \in DOMAIN items : d \notin Dates(items[i].panel) THEN "KeyError"
    ELSE IF Joined(items) = {} THEN "skip"
    ELSE IF Rank(items, d) # Len(items) THEN LengthMismatch
    ELSE "row"

\* a value of the orthonormal basis after standardization: finite, its
\* magnitude is not modelled
OrthValue == <<"orth", 0, 1>>

\* lines 65-70: the rows of the loop concatenated, standardized, and stored
\* under every factor name
orthogonalize_concat(items, clean, outcomes, stype, wins, idx) ==
    LET dates == clean[1].panel.index
        failed == {t \in DOMAIN dates : outcomes[t] \notin {"skip", "row"}}
        emitted == SetToSeq({t \in DOMAIN dates : outcomes[t] = "row"})
        index == Vec([j \in DOMAIN emitted |-> dates[emitted[j]]])
        cols == UNION {Survivors(clean, index[j]) : j \in DOMAIN index}
        among == IF idx.given THEN cols \cap idx.members ELSE cols
        new == [index |-> index,
                columns |-> cols,
                data |-> Fn([d \in Range(index) |->
                               Fn([a \in cols |->
                                     IF a \in Survivors(clean, d) /\ a \in among
                                     THEN OrthValue ELSE NaN])])]
        cleansing == Flatten([i \in DOMAIN items |->
                        <<Call("fillinf", items[i].name)>> \o
                        (IF wins THEN <<Call("winsorize", items[i].name)>> ELSE <<>>)])
        scaling == [i \in DOMAIN items |->
                        Call(IF stype = "z_score" THEN "standardize" ELSE "rank_standardize",
                             items[i].name)]
    IN  IF failed # {}
        THEN [raised |-> outcomes[CHOOSE t \in failed : \A r \in failed : t <= r],
              items |-> clean, calls |-> cleansing, new |-> <<>>]
        ELSE IF emitted = <<>>
        THEN [raised |-> NothingToConcat, items |-> clean, calls |-> cleansing, new |-> <<>>]
        ELSE [raised |-> "none", items |-> clean, calls |-> cleansing \o scaling,
              new |-> WithPanels(items, [i \in DOMAIN items |-> new])]

\* lines 51-62: the loop over the dates of the first factor
orthogonalize_loop(items, clean, stype, wins, idx) ==
    orthogonalize_concat(items, clean,
                         [t \in DOMAIN clean[1].panel.index |->
                            DateOutcome(clean, clean[1].panel.index[t])],
                         stype, wins, idx)

orthogonalize_of(items, stype, wins, idx) ==
    orthogonalize_loop(items,
                       WithPanels(items, [i \in DOMAIN items |->
                                            Sanitized(items[i].panel, wins, idx)]),
                       stype, wins, idx)

\* -------------------------------------------------------- combine_factors
\* lines 383-384
Winsorized(masked, wins) == IF wins THEN winsorize(masked, NoMask) ELSE masked

\* lines 380-384: sanitize, mask, optionally winsorize
Cleansed(panel, wins, idx) ==
    Winsorized(mask_non_index_member(fillinf(panel), idx), wins)

\* lines 385-388
Rescaled(cleansed, stype) ==
    CASE stype = "z_score" -> standardize(cleansed, NoMask)
      [] stype = "rank" -> rank_standardize(cleansed, NoMask)
      [] OTHER -> cleansed

Standardized(panel, stype, wins, idx) == Rescaled(Cleansed(panel, wins, idx), stype)

StandardizeTypes == {"z_score", "rank", "None"}

CleansingCalls(name, wins) ==
    <<Call("fillinf", name), Call("_mask_non_index_member", name)>> \o
    (IF wins THEN <<Call("winsorize", name)>> ELSE <<>>)

ScalingCalls(name, stype) ==
    CASE stype = "z_score" -> <<Call("standardize", name)>>
      [] stype = "rank" -> <<Call("rank_standardize", name)>>
      [] OTHER -> <<>>

\* the loop stops at the first key when standardize_type is not recognized:
\* that key's panel has been sanitized, masked and winsorized by then
standarize_factors(items, stype, wins, idx) ==
    IF stype \in StandardizeTypes
    THEN [raised |-> "none",
          items |-> WithPanels(items, [i \in DOMAIN items |->
                                  Standardized(items[i].panel, stype, wins, idx)]),
          calls |-> Flatten([i \in DOMAIN items |->
                      CleansingCalls(items[i].name, wins) \o ScalingCalls(items[i].name, stype)])]
    ELSE [raised |-> BadStandardizeType,
          items |-> WithPanels(items, [i \in DOMAIN items |->
                                  IF i = 1 THEN Cleansed(items[i].panel, wins, idx)
                                  ELSE items[i].panel]),
          calls |-> CleansingCalls(items[1].name, wins)]

ICMethods == {"max_IR", "max_IC", "ic_weight", "ir_weight"}

\* lines 397-399: the data source is asked when no price is given
NeedsData(pr) ==
    \/ pr.price = "None"
    \/ pr.ret_type \in {"upside_ret", "downside_ret"} /\ pr.high_low = "None"

\* lines 427-435: the weight function of the method
weight_of(method, got, hp, n, ctype, lapack) ==
    CASE method = "max_IR" -> max_IR_weight_df(got.ic, hp, n, ctype, lapack)
      [] method = "ic_weight" -> [raised |-> "none", df |-> ic_weight_df(got.ic, hp, n)]
      [] method = "ir_weight" -> [raised |-> "none", df |-> ir_weight_df(got.ic, hp, n)]
      [] method = "max_IC" -> max_IC_weight_df(got.ic, got.items, hp, ctype, lapack)

cal_weight_done(got, log, method, w) ==
    [raised |-> w.raised, items |-> got.items,
     calls |-> log \o <<Call(method, "")>>, weight |-> w.df]

cal_weight_with(got, prepare, method, hp, n, ctype, lapack) ==
    IF got.raised # "none"
    THEN [raised |-> got.raised, items |-> got.items,
          calls |-> prepare \o got.calls, weight |-> NoFrame]
    ELSE cal_weight_done(got, prepare \o got.calls, method,
                         weight_of(method, got, hp, n, ctype, lapack))

cal_weight(items, method, pr, hp, n, ctype, answers, lapack) ==
    cal_weight_with(get_factors_ic_df_of(items, pr.ret_type, answers),
                    IF NeedsData(pr) THEN <<Call("_prepare_data", items[1].name)>> ELSE <<>>,
                    method, hp, n, ctype, lapack)

\* mutant: the sum keeps the left operand's axes only
sum_weighted_factors_LeftAxes(x, y) ==
    LET s == PanelAdd(x, y)
    IN  [index |-> x.index,
         columns |-> x.columns,
         data |-> Fn([d \in Dates(x) |-> Fn([a \in x.columns |-> s.data[d][a]])])]

sum_weighted_factors(x, y) == PanelAdd(x, y)

RECURSIVE reduce(_)
\* reduce(sum_weighted_factors, weighted_factors.values())
reduce(items) ==
    IF Len(items) = 1 THEN items[1].panel
    ELSE sum_weighted_factors(reduce(SubSeq(items, 1, Len(items) - 1)),
                              items[Len(items)].panel)

\* the call ends with exception e: nothing is returned
aborted(e, items, log) ==
    [raised |-> e, items |-> items, calls |-> log,
     new |-> [index |-> <<>>, columns |-> {}, data |-> <<>>]]

\* line 459: the standardized composite is returned
combine_factors_return(items, log, new_factor) ==
    [raised |-> "none", items |-> items,
     calls |-> log \o new_factor.calls,
     new |-> new_factor.items[1].panel]

\* lines 457-459: the weighted panels are summed and standardized again
combine_factors_sum(items, weighted, log, stype, wins, idx) ==
    combine_factors_return(items, log,
        standarize_factors(<<[name |-> "factor", panel |-> reduce(weighted)]>>,
                           stype, wins, idx))

\* lines 450-452: every panel times its column of the weight matrix
weighted_factors(cw) ==
    WithPanels(cw.items, [i \in DOMAIN cw.items |->
        PanelTimesWeight(cw.items[i].panel, cw.weight,
                         Position(cw.weight.columns, cw.items[i].name))])

combine_factors_weighted(done, cw, stype, wins, idx) ==
    IF cw.raised # "none" THEN aborted(cw.raised, cw.items, done.calls \o cw.calls)
    ELSE combine_factors_sum(cw.items, weighted_factors(cw), done.calls \o cw.calls,
                             stype, wins, idx)

\* lines 444-456: the branch on weighted_method
combine_factors_method(done, stype, wins, idx, method, pr, hp, n, ctype, answers, lapack) ==
    IF done.raised # "none" THEN aborted(done.raised, done.items, done.calls)
    ELSE IF method \in ICMethods
    THEN combine_factors_weighted(
             done, cal_weight(done.items, method, pr, hp, n, ctype, answers, lapack),
             stype, wins, idx)
    ELSE IF method = "equal_weight"
    THEN combine_factors_sum(done.items, done.items, done.calls, stype, wins, idx)
    ELSE aborted(BadWeightedMethod, done.items, done.calls)

combine_factors_of(dict, stype, wins, idx, method, pr, hp, n, ctype, answers, lapack) ==
    IF FewerThanTwo(dict) THEN aborted(NeedTwoFactors, dict.items, <<>>)
    ELSE combine_factors_method(standarize_factors(dict.items, stype, wins, idx),
                                stype, wins, idx, method, pr, hp, n, ctype, answers, lapack)

\* ----------------------------------- inputs of the factor-mapping functions
Panel(index, columns, val) ==
    [index |-> index,
     columns |-> columns,
     data |-> Fn([d \in Range(index) |-> Fn([a \in columns |-> val[d, a]])])]

PanelIndex == Vec([i \in 1..MaxPanelDates |-> i])

\* six panels: values everywhere; an infinity and a missing value; one
\* date; two assets; one asset that the panels of two assets lack; a date
\* without any value
PanelPool ==
    << Panel(PanelIndex, {"x", "y", "z"},
             [d \in 1..MaxPanelDates, a \in Assets |->
                IF a = "x" THEN Z(2 * d - 1) ELSE IF a = "y" THEN Z(3 - d) ELSE Z(8 - 4 * d)]),
       Panel(PanelIndex, {"x", "y", "z"},
             [d \in 1..MaxPanelDates, a \in Assets |->
                IF d % 2 = 1
                THEN (IF a = "x" THEN PInf ELSE IF a = "y" THEN Z(1) ELSE Z(0))
                ELSE (IF a = "x" THEN Z(2) ELSE IF a = "y" THEN NaN ELSE Z(1))]),
       Panel(<<1>>, {"y", "z"},
             [d \in 1..MaxPanelDates, a \in Assets |-> IF a = "y" THEN Z(1) ELSE Z(3)]),
       Panel(PanelIndex, {"x", "y"},
             [d \in 1..MaxPanelDates, a \in Assets |->
                IF (a = "x") = (d % 2 = 1) THEN Z(0) ELSE Z(1)]),
       Panel(PanelIndex, {"z"},
             [d \in 1..MaxPanelDates, a \in Assets |-> Z(d)]),
       Panel(PanelIndex, {"x", "y"},
             [d \in 1..MaxPanelDates, a \in Assets |->
                IF d = 1 THEN NaN ELSE IF a = "x" THEN Z(1) ELSE Z(2)]) >>

Item(name, panel) == [name |-> name, panel |-> panel]
Dict(items) == [none |-> FALSE, items |-> items]

\* the mappings of two factors over the panels pool[i], both key orders
TwoFactors(pool) ==
    UNION {{Dict(<<Item("A", pool[i]), Item("B", pool[j])>>),
            Dict(<<Item("B", pool[j]), Item("A", pool[i])>>)} : i, j \in DOMAIN pool}

\* the mappings with fewer than two factors: missing, empty, one factor
TooFew(pool) == {NoDict, Dict(<<>>)} \cup {Dict(<<Item("A", pool[i])>>) : i \in DOMAIN pool}

SmallPool == SubSeq(PanelPool, 1, 3)

\* IC series the collaborator may answer for a panel over the dates 1..T:
\* a value on every date, on every date but the last, with a missing value
Series ==
    { Fn([d \in 1..MaxPanelDates |-> Z(1)]),
      Fn([d \in 1..MaxPanelDates |-> Z(d % 2)]),
      Fn([d \in 1..(MaxPanelDates - 1) |-> Z(-1)]),
      Fn([d \in 1..MaxPanelDates |-> IF d = 1 THEN NaN ELSE Z(d)]) }

Answers(columns, seriesA, seriesB) ==
    {[columns |-> c, ic |-> [A |-> a, B |-> b]] : c \in columns, a \in seriesA, b \in seriesB}

FactorDefaults ==
    /\ pc = "ready"
    /\ factors_in = factors_dict
    /\ ic_df = NoFrame
    /\ result = NoFrame
    /\ raised = "none"
    /\ calls = <<>>

InitFactors ==
    /\ \/ /\ fn = "orthogonalize"
          /\ factors_dict \in TwoFactors(PanelPool) \cup TooFew(PanelPool)
          /\ standardize_type \in {"z_score", "rank"}
          /\ winsorization \in BOOLEAN
          /\ index_member \in {NoMask, Mask({"x", "y"})}
          /\ weighted_method = "equal_weight"
          /\ props = NoProps /\ collab = NoCollab
          /\ holding_period = 0 /\ rollback_period = 1 /\ covariance_type = "simple"
       \/ /\ fn = "get_factors_ic_df"
          /\ factors_dict \in TwoFactors(SmallPool) \cup (TooFew(SmallPool) \ {NoDict})
          /\ standardize_type = "rank" /\ winsorization = FALSE /\ index_member = [given |-> FALSE, members |-> {}]
          /\ weighted_method = "equal_weight"
          /\ props \in {[price |-> "given", high_low |-> "None", ret_type |-> r] :
                           r \in {"return", "None", "upside_ret", "total"}}
          /\ collab \in Answers({{"return"}, ReturnTypes, {}}, Series, Series)
          /\ holding_period = 0 /\ rollback_period = 1 /\ covariance_type = "simple"
       \/ /\ fn = "combine_factors"
          /\ factors_dict \in TwoFactors(PanelPool) \cup TooFew(PanelPool)
          /\ standardize_type \in StandardizeTypes \cup {"minmax"}
          /\ winsorization \in BOOLEAN
          /\ index_member \in {NoMask, Mask({"x", "y"})}
          /\ weighted_method \in {"equal_weight", "median_weight"}
          /\ props = NoProps /\ collab = NoCollab
          /\ holding_period = 0 /\ rollback_period = 1 /\ covariance_type = "simple"
       \/ /\ fn = "combine_factors"
          /\ factors_dict \in TwoFactors(SmallPool)
          /\ standardize_type \in {"rank", "None"}
          /\ winsorization = FALSE /\ index_member = [given |-> FALSE, members |-> {}]
          /\ weighted_method \in ICMethods
          /\ props \in {[price |-> "given", high_low |-> "None", ret_type |-> r] :
                           r \in {"return", "total", "downside_ret"}}
          /\ collab \in Answers({{"return"}}, Series, {s \in Series : NotNull(s[1])})
          /\ holding_period \in 0..1 /\ rollback_period \in 1..2
          /\ covariance_type = IF weighted_method = "max_IC" THEN "shrink" ELSE "simple"
    /\ FactorDefaults

\* ------------------------------------------ the factor-mapping functions
FactorFrame ==
    UNCHANGED <<fn, factors_in, ic_df, holding_period, rollback_period, covariance_type,
                standardize_type, winsorization, index_member, weighted_method, props,
                collab>>

Finish(r, value) ==
    /\ factors_dict' = [factors_dict EXCEPT !.items = r.items]
    /\ calls' = r.calls
    /\ IF r.raised = "none" THEN Returns(value) ELSE Raises(r.raised)

\* what each function returns: the new mapping, the IC table, the composite
FinishMapping(r) == Finish(r, Dict(r.new))
FinishIC(r) == Finish(r, r.ic)
FinishPanel(r) == Finish(r, r.new)

orthogonalize ==
    /\ pc = "ready" /\ fn = "orthogonalize"
    /\ IF FewerThanTwo(factors_dict)
       THEN Raises(NeedTwoFactors) /\ UNCHANGED <<factors_dict, calls>>
       ELSE FinishMapping(orthogonalize_of(factors_dict.items, standardize_type,
                                           winsorization, index_member))
    /\ FactorFrame

get_factors_ic_df ==
    /\ pc = "ready" /\ fn = "get_factors_ic_df"
    /\ FinishIC(get_factors_ic_df_of(factors_dict.items, props.ret_type, collab))
    /\ FactorFrame

combine_factors ==
    /\ pc = "ready" /\ fn = "combine_factors"
    /\ \E lapack \in {"nan", "raise"} :
         FinishPanel(combine_factors_of(factors_dict, standardize_type, winsorization,
                                        index_member, weighted_method, props,
                                        holding_period, rollback_period, covariance_type,
                                        collab, lapack))
    /\ FactorFrame

NextFactors == orthogonalize \/ get_factors_ic_df \/ combine_factors

SpecFactors == InitFactors /\ [][NextFactors]_vars

\* ================================= claims on the factor-mapping functions
FactorFns == {"orthogonalize", "get_factors_ic_df", "combine_factors"}

Called(ops) == \E i \in DOMAIN calls : calls[i].op \in ops

\* the whole standardization of combine_factors on one panel, step by step
Pipeline(panel) ==
    LET sanitized == fillinf(panel)
        masked == mask_non_index_member(sanitized, index_member)
        clipped == IF winsorization THEN winsorize(masked, NoMask) ELSE masked
    IN  CASE standardize_type = "z_score" -> standardize(clipped, NoMask)
          [] standardize_type = "rank" -> rank_standardize(clipped, NoMask)
          [] OTHER -> clipped

C4_Case ==
    /\ Returned /\ fn = "combine_factors" /\ weighted_method = "equal_weight"
    /\ Len(factors_in.items) = 2

\* C4: with equal_weight the composite of two factors A and B is
\* standardize(standardize(A) + standardize(B)), whichever key comes first
\* in the mapping, and neither the IC estimator, nor a weight function, nor
\* the data source is called.
C4_EqualWeight ==
    C4_Case =>
        /\ result = Pipeline(PanelAdd(Pipeline(Lookup(factors_in.items, "A")),
                                      Pipeline(Lookup(factors_in.items, "B"))))
        /\ result = Pipeline(PanelAdd(Pipeline(Lookup(factors_in.items, "B")),
                                      Pipeline(Lookup(factors_in.items, "A"))))
        /\ ~Called({"SignalCreator", "get_signal_data", "calc_signal_ic", "_prepare_data"}
                   \cup ICMethods)

C4_Witness ==
    /\ C4_Case
    /\ Keys(factors_in.items) = <<"B", "A">>
    /\ Lookup(factors_in.items, "A").columns # Lookup(factors_in.items, "B").columns
    /\ standardize_type = "z_score"
    /\ \E d \in Dates(result) : \E a \in result.columns : IsFin(result.data[d][a])

\* C5: a call that ends in a validation error leaves every panel of the
\* caller's mapping as it was.
C5_ValidationErrorAppliesNothing ==
    (pc = "done" /\ fn \in FactorFns /\ raised \in ValidationErrors) =>
        factors_dict = factors_in

\* C7: after a successful call the caller's mapping holds the panels it held
\* before the call.
C7_InputsUntouched ==
    (Returned /\ fn \in FactorFns) => factors_dict = factors_in

\* the panel a successful call leaves under a key that held panel
LeftBehind(panel) ==
    CASE fn = "orthogonalize" ->
            IF winsorization THEN winsorize(fillinf(panel), index_member) ELSE fillinf(panel)
      [] fn = "get_factors_ic_df" -> fillinf(panel)
      [] fn = "combine_factors" ->
            IF weighted_method = "equal_weight" THEN Pipeline(panel)
            ELSE fillinf(Pipeline(panel))

\* C7, amended: after a successful call the caller's mapping has the same
\* keys in the same order, and under each key the panel is the sanitized
\* one (orthogonalize: non-finite values removed, winsorized when asked;
\* get_factors_ic_df: non-finite values removed; combine_factors: the
\* standardized panel); the result is a separate object with, for
\* orthogonalize, the same keys.
C7_InputsCleansedInPlace ==
    (Returned /\ fn \in FactorFns) =>
        /\ Keys(factors_dict.items) = Keys(factors_in.items)
        /\ \A i \in DOMAIN factors_in.items :
              factors_dict.items[i].panel = LeftBehind(factors_in.items[i].panel)
        /\ fn = "orthogonalize" => Keys(result.items) = Keys(factors_in.items)

C7_Witness ==
    /\ Returned /\ fn = "combine_factors" /\ weighted_method = "ic_weight"
    /\ factors_dict # factors_in
    /\ \E i \in DOMAIN factors_in.items :
          \E d \in Dates(factors_in.items[i].panel) :
             \E a \in factors_in.items[i].panel.columns :
                /\ IsInf(factors_in.items[i].panel.data[d][a])
                /\ IsNaN(factors_dict.items[i].panel.data[d][a])

C8_Case == pc = "done" /\ fn \in {"orthogonalize", "combine_factors"}

\* C8: orthogonalize and combine_factors raise the input-validation error
\* when the mapping is missing, empty or has one factor, before any panel is
\* touched or any collaborator called; with two factors they never raise it.
C8_AtLeastTwoFactors ==
    C8_Case =>
        IF factors_in.none \/ Len(factors_in.items) <= 1
        THEN raised = NeedTwoFactors /\ calls = <<>> /\ factors_dict = factors_in
        ELSE raised # NeedTwoFactors

C8_Witness ==
    /\ C8_Case /\ fn = "orthogonalize"
    /\ ~factors_in.none /\ Len(factors_in.items) = 1
    /\ raised = NeedTwoFactors

\* the dates of the first panel's index on which no asset is left by the
\* inner join and the removal of incomplete rows
EmptyDates ==
    {d \in Dates(factors_dict.items[1].panel) : Survivors(factors_dict.items, d) = {}}

C9_Case ==
    /\ pc = "done" /\ fn = "orthogonalize" /\ Len(factors_in.items) = 2
    /\ \A d \in Dates(factors_dict.items[1].panel) :
          /\ d \in Dates(factors_dict.items[2].panel)
          /\ Survivors(factors_dict.items, d) = {} \/ Rank(factors_dict.items, d) = 2
    /\ EmptyDates # {}

\* C9: a date on which no asset survives is skipped without an error; the
\* result has the input's keys and every output panel has exactly the dates
\* with a surviving asset.
C9_EmptyDatesSkipped ==
    C9_Case =>
        /\ raised = "none"
        /\ Keys(result.items) = Keys(factors_in.items)
        /\ \A i \in DOMAIN result.items :
              Dates(result.items[i].panel) =
                 Dates(factors_dict.items[1].panel) \ EmptyDates

\* factor name has no IC value on date d
NoICValue(name, d) == d \notin DOMAIN collab.ic[name] \/ IsNaN(collab.ic[name][d])

C11_Case == pc = "done" /\ fn = "get_factors_ic_df" /\ raised = "none"

\* C11: the IC matrix returned by get_factors_ic_df has one column per input
\* factor, its index is the ascending, duplicate-free union of the date
\* indices of all input panels, and every row is fully defined or fully
\* undefined: a date on which some factor has no IC value is undefined for
\* every factor.
C11_ICMatrixRows ==
    C11_Case =>
        /\ result.columns = [i \in 1..Len(factors_in.items) |-> factors_in.items[i].name]
        /\ \A t \in 1..(Len(result.index) - 1) : result.index[t] < result.index[t + 1]
        /\ Range(result.index) =
               UNION {Range(factors_in.items[i].panel.index) : i \in DOMAIN factors_in.items}
        /\ Len(result.data) = Len(result.index)
        /\ \A t \in DOMAIN result.index :
               /\ Len(result.data[t]) = Len(factors_in.items)
               /\ RowDefined(result.data[t]) \/ RowUndefined(result.data[t])
               /\ (\E i \in DOMAIN factors_in.items :
                       NoICValue(factors_in.items[i].name, result.index[t]))
                   => RowUndefined(result.data[t])

\* two factors with different date indices; one date is a gap although one
\* factor has an IC value there, another date is fully defined
C11_Witness ==
    /\ C11_Case
    /\ Len(factors_in.items) = 2
    /\ factors_in.items[1].panel.index # factors_in.items[2].panel.index
    /\ \E t \in DOMAIN result.index :
           /\ RowUndefined(result.data[t])
           /\ \E i \in DOMAIN factors_in.items :
                  ~NoICValue(factors_in.items[i].name, result.index[t])
    /\ \E t \in DOMAIN result.index : RowDefined(result.data[t])

====
